---- MODULE Spec2Model ----
(***************************************************************************)
(* A model of code_packer's main.js: the path filter, the ignore-rule      *)
(* parser, the tree renderer, the bundle encoder (doFlatten), the bundle   *)
(* decoder (inflateToZip) and the upload handlers that own STATE.          *)
(*                                                                         *)
(* Text is modelled by TLA+ strings, one character per position.  Offsets  *)
(* are JavaScript's (0-based); Sub(s, a, b) is s.substring(a, b).          *)
(***************************************************************************)
EXTENDS Integers, Sequences, FiniteSets, TLC

VARIABLES
    globalFiles,      \* STATE.globalFiles: a sequence of [path, content, selected]
    finalOutput,      \* STATE.finalOutput
    flattenQueue,     \* the pending setTimeout callbacks of doFlatten: their activeFiles
    pasteArea,        \* the value of the #pasteArea text area
    inflatePc,        \* inflateToZip: "idle", or "generating" (at await zip.generateAsync)
    inflateContent,   \* inflateToZip's content: the text it read from the paste area
    matches,          \* inflateToZip's matches
    zip,              \* inflateToZip's zip: the calls zip.file(path, content), in order
    fileCount,        \* inflateToZip's fileCount
    extractedName,    \* inflateToZip's extractedName
    saved,            \* whether inflateToZip called saveAs
    inflateToast,     \* the last message of inflateToZip: "", "empty", "nomarkers",
                      \* "novalid", "success" or "zipfail"
    gitIgnoreRules,   \* PROCESSOR.gitIgnoreRules: a sequence of [rule, isDir]
    currentProjectName, \* STATE.currentProjectName
    tasks,            \* the invocations of the async upload handlers, each with its
                      \* position (pc) and locals (existIndex is 1-based, 0 for -1); an
                      \* invocation that returned has pc "done"
    events,           \* how many upload events have been handled
    rulesFrom,        \* history: the upload whose .gitignore gave gitIgnoreRules (0: none)
    filterLog,        \* history: [upload, rulesFrom] of the calls of shouldIgnore that ran
                      \* with a non-empty rule set
    admitLog,         \* history: [upload, path, rules] of the files a folder load put into
                      \* STATE.globalFiles, with the rule set shouldIgnore saw for them
    ignoreText,       \* the text a direct call hands to parseGitIgnore
    probePath,        \* the path a direct call hands to shouldIgnore
    probeResult,      \* what that call returned: "unset", "ignored" or "kept"
    filterPc,         \* the direct calls: "parse", then "probe", then "done"
    treePaths,        \* the paths a direct call hands to generateTree
    treeText,         \* what that call returned
    treeCalled,       \* whether that call was made
    fileTree          \* the indexes (1-based) of STATE.globalFiles the leaves of the
                      \* rendered file tree pass to toggleFileSelection when clicked

(***************************************************************************)
(* Characters and strings.  A value that is used more than once is passed  *)
(* to a helper operator as an argument, so each step of the source is a    *)
(* definition of its own.                                                  *)
(***************************************************************************)

Min(a, b) == IF a <= b THEN a ELSE b

\* s.charAt(i), i 0-based; "" outside the string.
At(s, i) == IF i >= 0 /\ i < Len(s) THEN SubSeq(s, i + 1, i + 1) ELSE ""

\* s.substring(a, b) for 0 <= a <= b: both ends are clamped to the length.
Sub(s, a, b) == SubSeq(s, Min(a, Len(s)) + 1, Min(b, Len(s)))

\* s.slice(a) for 0 <= a
From(s, a) == SubSeq(s, Min(a, Len(s)) + 1, Len(s))

\* The class \s of a JavaScript regular expression, and what trim() removes,
\* over the characters of the model.
IsSpace(c) == c \in {" ", "\t", "\n", "\r"}

\* The class [\r\n]; the characters `.` does not match.
IsLineBreak(c) == c \in {"\n", "\r"}

\* The class [=-].
IsFence(c) == c \in {"=", "-"}

\* The class [\/\\].
IsSlash(c) == c \in {"/", "\\"}

\* The class `.`.
NotLineBreak(c) == c # "" /\ ~IsLineBreak(c)

StartsWith(s, p) == Len(p) <= Len(s) /\ SubSeq(s, 1, Len(p)) = p

EndsWith(s, p) == Len(p) <= Len(s) /\ SubSeq(s, Len(s) - Len(p) + 1, Len(s)) = p

\* s.includes(p)
Includes(s, p) == \E i \in 0..(Len(s) - Len(p)) : Sub(s, i, i + Len(p)) = p

\* s.indexOf(c) for a character c that s includes.
IndexOf(s, c) ==
    CHOOSE k \in 0..(Len(s) - 1) : At(s, k) = c /\ \A j \in 0..(k - 1) : At(s, j) # c

\* Whether the character c is of a class of the regular expressions: "\\s",
\* "[=-]" or ".".
InClass(c, class) ==
    CASE class = "\\s" -> IsSpace(c)
      [] class = "[=-]" -> IsFence(c)
      [] class = "." -> NotLineBreak(c)

\* The length of the longest run of characters of a class starting at offset i.
RunLen(s, i, class) ==
    IF i >= Len(s) THEN 0
    ELSE CHOOSE n \in 0..(Len(s) - i) :
             /\ \A j \in 0..(n - 1) : InClass(At(s, i + j), class)
             /\ (i + n = Len(s) \/ ~InClass(At(s, i + n), class))

\* Where the trailing white space of s begins, at or after offset a.
TrimEnd(s, a) ==
    CHOOSE e \in a..Len(s) :
        /\ \A j \in e..(Len(s) - 1) : IsSpace(At(s, j))
        /\ (e = a \/ ~IsSpace(At(s, e - 1)))

TrimFrom(s, a) == Sub(s, a, TrimEnd(s, a))

\* s.trim()
Trim(s) == TrimFrom(s, RunLen(s, 0, "\\s"))

UpperCase == "ABCDEFGHIJKLMNOPQRSTUVWXYZ"
LowerCase == "abcdefghijklmnopqrstuvwxyz"

\* to[i] for the i with from[i] = c, and c itself when there is none.
MapChar(c, from, to) == IF c # "" /\ Includes(from, c) THEN At(to, IndexOf(from, c)) ELSE c

RECURSIVE ToLowerCase(_)
\* s.toLowerCase()
ToLowerCase(s) ==
    IF s = "" THEN ""
    ELSE MapChar(At(s, 0), UpperCase, LowerCase) \o ToLowerCase(From(s, 1))

RECURSIVE ToUpperCase(_)
\* s.toUpperCase()
ToUpperCase(s) ==
    IF s = "" THEN ""
    ELSE MapChar(At(s, 0), LowerCase, UpperCase) \o ToUpperCase(From(s, 1))

RECURSIVE NormSlash(_)
\* s.replace(/\\/g, '/')
NormSlash(s) ==
    IF s = "" THEN "" ELSE MapChar(At(s, 0), "\\", "/") \o NormSlash(From(s, 1))

RECURSIVE Split(_, _)
SplitAt(s, sep, i) == <<Sub(s, 0, i)>> \o Split(From(s, i + 1), sep)

\* s.split(sep) for a one-character separator: a sequence of strings, never empty.
Split(s, sep) == IF Includes(s, sep) THEN SplitAt(s, sep, IndexOf(s, sep)) ELSE <<s>>

RECURSIVE Join(_, _)
\* parts.join(sep)
Join(parts, sep) ==
    IF parts = <<>> THEN ""
    ELSE IF Len(parts) = 1 THEN parts[1]
    ELSE parts[1] \o sep \o Join(Tail(parts), sep)

RECURSIVE Concat(_)
\* strs.join('')
Concat(strs) == IF strs = <<>> THEN "" ELSE strs[1] \o Concat(Tail(strs))

Range(seq) == {seq[i] : i \in DOMAIN seq}

Last(seq) == seq[Len(seq)]

(***************************************************************************)
(* ProjectProcessor: configuration, parseGitIgnore, shouldIgnore.          *)
(***************************************************************************)

IGNORE_DIRS ==
    { ".git", ".svn", ".hg", ".idea", ".vscode", ".settings",
      "node_modules", "bower_components", "build", "dist", "out", "target",
      "__pycache__", ".venv", "venv", "env", ".pytest_cache",
      ".dart_tool", ".pub-cache", "bin", "obj", ".gradle", "vendor",
      "tmp", "temp", "logs", "coverage", ".next", ".nuxt",
      "ios", "android" }

IGNORE_EXTS ==
    { ".png", ".jpg", ".jpeg", ".gif", ".svg", ".ico", ".webp", ".mp4", ".mp3", ".wav",
      ".pdf", ".doc", ".docx", ".xls", ".xlsx", ".ppt", ".pptx", ".zip", ".tar", ".gz",
      ".7z", ".rar",
      ".exe", ".dll", ".so", ".dylib", ".class", ".jar", ".db", ".sqlite", ".sqlite3",
      ".lock", "package-lock.json", "yarn.lock", "pnpm-lock.yaml", ".DS_Store" }

\* The .map(rule => ...) of parseGitIgnore: isDir and the rule without its
\* trailing slash.
RuleOf(rule) ==
    [rule |-> IF EndsWith(rule, "/") THEN Sub(rule, 0, Len(rule) - 1) ELSE rule,
     isDir |-> EndsWith(rule, "/")]

\* The .filter(line => line && !line.startsWith('#')) and the .map of a trimmed line.
RulesOfLine(line) ==
    IF line # "" /\ ~StartsWith(line, "#") THEN <<RuleOf(line)>> ELSE <<>>

RECURSIVE RulesOf(_)
RulesOf(lines) ==
    IF lines = <<>> THEN <<>> ELSE RulesOfLine(Trim(lines[1])) \o RulesOf(Tail(lines))

\* parseGitIgnore(content): the value it assigns to this.gitIgnoreRules.
ParseGitIgnore(content) == RulesOf(Split(content, "\n"))

\* `if (rule.includes('/')) {...}` for the normalizedRule.
PathRuleMatches(normalizedRule, path) ==
    \/ path = normalizedRule
    \/ StartsWith(path, normalizedRule \o "/")
    \/ Includes(path, "/" \o normalizedRule \o "/")

\* RuleMatches with `rule` in the place of normalizedRule.
RuleMatchesUnstripped(rule, path, parts, fileName) ==
    \/ \E i \in DOMAIN parts : parts[i] = rule
    \/ Includes(rule, "/") /\ PathRuleMatches(rule, path)
    \/ fileName = rule
    \/ StartsWith(rule, "*") /\ EndsWith(fileName, From(rule, 1))

\* The body of the `for (const {rule, isDir} of this.gitIgnoreRules)` loop:
\* whether this rule makes shouldIgnore return true.
RuleMatches(rule, path, parts, fileName) ==
    \/ \E i \in DOMAIN parts : parts[i] = rule
    \/ /\ Includes(rule, "/")
       /\ PathRuleMatches(IF StartsWith(rule, "/") THEN From(rule, 1) ELSE rule, path)
    \/ fileName = rule
    \/ StartsWith(rule, "*") /\ EndsWith(fileName, From(rule, 1))

\* IGNORE_EXTS.some(ext => lowerName.endsWith(ext))
SomeExtEnds(lowerName) == \E ext \in IGNORE_EXTS : EndsWith(lowerName, ext)

\* The hardcoded extension check of shouldIgnore.
IgnoredByExt(fileName) == SomeExtEnds(ToLowerCase(fileName))

\* The hardcoded directory check of shouldIgnore.
IgnoredByDir(parts) == \E i \in DOMAIN parts : parts[i] \in IGNORE_DIRS

\* shouldIgnore once path, parts and fileName are computed.
IgnoredParts(path, parts, rules) ==
    \/ IgnoredByDir(parts)
    \/ IgnoredByExt(Last(parts))
    \/ \E r \in DOMAIN rules : RuleMatches(rules[r].rule, path, parts, Last(parts))

IgnoredPath(path, rules) == IgnoredParts(path, Split(path, "/"), rules)

\* shouldIgnore(path) with this.gitIgnoreRules = rules.
ShouldIgnore(path, rules) == IgnoredPath(NormSlash(path), rules)

(***************************************************************************)
(* ProjectProcessor.generateTree.  The box-drawing characters, which a     *)
(* TLA+ string cannot hold, are written with one ASCII character each:     *)
(* U+251C as "+", U+2514 as "^", U+2500 as "~", U+2502 as "|".             *)
(***************************************************************************)

BranchMid == "+~~ "
BranchLast == "^~~ "
PrefixMid == "|   "
PrefixLast == "    "

Digits == "0123456789"

\* a < b for two decimal numerals of the same length.
NumeralLess(a, b) ==
    \E i \in 0..(Len(a) - 1) :
        /\ Sub(a, 0, i) = Sub(b, 0, i)
        /\ IndexOf(Digits, At(a, i)) < IndexOf(Digits, At(b, i))

\* Whether a property key is an array index (a canonical decimal below 2^32 - 1):
\* Object.keys lists such keys first, in ascending numeric order.
IsIndexKey(k) ==
    /\ k # ""
    /\ \A i \in 0..(Len(k) - 1) : Includes(Digits, At(k, i))
    /\ (Len(k) > 1 => At(k, 0) # "0")
    /\ \/ Len(k) < 10
       \/ Len(k) = 10 /\ (k = "4294967294" \/ NumeralLess(k, "4294967294"))

\* a < b for two array-index keys.
IndexLess(a, b) == Len(a) < Len(b) \/ (Len(a) = Len(b) /\ NumeralLess(a, b))

\* The segments of each path: path.replace(/\\/g, '/').split('/').
SegmentsOf(paths) == [i \in DOMAIN paths |-> Split(NormSlash(paths[i]), "/")]

IsPrefixOf(p, segs) == Len(p) <= Len(segs) /\ SubSeq(segs, 1, Len(p)) = p

\* `r[k] = r[k] || {}` at the node reached by the segments `node`, for one path.
InsertKey(keys, segs, node) ==
    IF IsPrefixOf(node, segs) /\ Len(segs) > Len(node)
       /\ segs[Len(node) + 1] \notin Range(keys)
    THEN Append(keys, segs[Len(node) + 1])
    ELSE keys

RECURSIVE InsertedKeys(_, _)
\* The keys of the node reached by the segments `node`, in the order the reduce
\* of generateTree created them.
InsertedKeys(segsList, node) ==
    IF segsList = <<>> THEN <<>>
    ELSE InsertKey(InsertedKeys(SubSeq(segsList, 1, Len(segsList) - 1), node),
                   Last(segsList), node)

RECURSIVE SortIndexKeys(_)
\* A set of array-index keys in ascending numeric order.
SortIndexKeys(ks) ==
    IF ks = {} THEN <<>>
    ELSE <<CHOOSE k \in ks : \A o \in ks \ {k} : IndexLess(k, o)>>
         \o SortIndexKeys(ks \ {CHOOSE k \in ks : \A o \in ks \ {k} : IndexLess(k, o)})

RECURSIVE NonIndexKeys(_)
NonIndexKeys(keys) ==
    IF keys = <<>> THEN <<>>
    ELSE (IF IsIndexKey(keys[1]) THEN <<>> ELSE <<keys[1]>>) \o NonIndexKeys(Tail(keys))

\* The order of Object.keys for keys created in the order `inserted`.
KeyOrder(inserted) ==
    SortIndexKeys({k \in Range(inserted) : IsIndexKey(k)}) \o NonIndexKeys(inserted)

\* Object.keys(node): array-index keys ascending, then the rest in insertion order.
ObjectKeys(segsList, node) == KeyOrder(InsertedKeys(segsList, node))

RECURSIVE PrintNode(_, _, _)
\* One iteration of the keys.map of print: the line of `key` and its subtree.
PrintKey(segsList, child, prefix, key, last) ==
    prefix \o (IF last THEN BranchLast ELSE BranchMid) \o key \o "\n"
    \o (IF ObjectKeys(segsList, child) # <<>>
        THEN PrintNode(segsList, child, prefix \o (IF last THEN PrefixLast ELSE PrefixMid))
        ELSE "")

PrintKeys(segsList, node, prefix, keys) ==
    Concat([i \in 1..Len(keys) |->
               PrintKey(segsList, Append(node, keys[i]), prefix, keys[i], i = Len(keys))])

\* print(node, prefix) of generateTree.
PrintNode(segsList, node, prefix) ==
    PrintKeys(segsList, node, prefix, ObjectKeys(segsList, node))

TreeOf(segsList) ==
    IF ObjectKeys(segsList, <<>>) # <<>>
    THEN (IF Len(segsList) > 1 THEN "Root/\n" ELSE "") \o PrintNode(segsList, <<>>, "")
    ELSE ""

\* generateTree(paths)
GenerateTree(paths) == TreeOf(SegmentsOf(paths))

(***************************************************************************)
(* doFlatten: the bundle text its deferred callback builds.                *)
(***************************************************************************)

SeparatorLine == "================================================"

\* `=== File: ${cleanPath} ===\n${f.content}\n\n`
Frame(f) == "=== File: " \o NormSlash(f.path) \o " ===\n" \o f.content \o "\n\n"

\* The `result` of doFlatten's callback for the captured activeFiles.
Bundle(activeFiles) ==
    "Project Structure:\n"
    \o GenerateTree([i \in DOMAIN activeFiles |-> activeFiles[i].path])
    \o "\n\n" \o SeparatorLine \o "\n\n"
    \o Concat([i \in DOMAIN activeFiles |-> Frame(activeFiles[i])])

RECURSIVE Selected(_)
\* STATE.globalFiles.filter(f => f.selected)
Selected(files) ==
    IF files = <<>> THEN <<>>
    ELSE (IF files[1].selected THEN <<files[1]>> ELSE <<>>) \o Selected(Tail(files))

(***************************************************************************)
(* inflateToZip: the marker scan.                                          *)
(*   markerRegex = /(?:^|\r?\n)[=-]{3,}\s*File:\s*(.*?)\s*[=-]{3,}(?:\r?\n|$)/g *)
(* A backtracking matcher returns the first match in its priority order.   *)
(* Each greedy run below is forced to its full length by the character     *)
(* that must follow it, so the only choice left is the length of the lazy  *)
(* capture (.*?), which is the least one that lets the rest match.         *)
(***************************************************************************)

NoMatch == [ok |-> FALSE, path |-> "", startIndex |-> 0, endIndex |-> 0]

\* (?:\r?\n|$) at offset e, after a closing fence that began at offset f: the
\* offset after the match, or -1.
TerminatorEnd(s, f, e) ==
    IF e - f < 3 THEN -1
    ELSE IF At(s, e) = "\r" /\ At(s, e + 1) = "\n" THEN e + 2
    ELSE IF At(s, e) = "\n" THEN e + 1
    ELSE IF e = Len(s) THEN e
    ELSE -1

\* [=-]{3,}(?:\r?\n|$) at offset f.
FenceEnd(s, f) == TerminatorEnd(s, f, f + RunLen(s, f, "[=-]"))

\* \s*[=-]{3,}(?:\r?\n|$) at offset i.
ClosingFenceEnd(s, i) == FenceEnd(s, i + RunLen(s, i, "\\s"))

\* The match whose capture is the c characters at offset q.
MarkerFound(s, start, q, c) ==
    [ok |-> TRUE, path |-> Trim(Sub(s, q, q + c)), startIndex |-> start,
     endIndex |-> ClosingFenceEnd(s, q + c)]

\* (.*?)\s*[=-]{3,}(?:\r?\n|$) at offset q, where `.` matches `dots` characters.
MarkerCapture(s, start, q, dots) ==
    IF \E c \in 0..dots : ClosingFenceEnd(s, q + c) >= 0
    THEN MarkerFound(s, start, q,
                     CHOOSE c \in 0..dots :
                         /\ ClosingFenceEnd(s, q + c) >= 0
                         /\ \A m \in 0..(c - 1) : ClosingFenceEnd(s, q + m) < 0)
    ELSE NoMatch

\* \s*(.*?)\s*[=-]{3,}(?:\r?\n|$) after File:, the white space ending at offset q.
MarkerPath(s, start, q) == MarkerCapture(s, start, q, RunLen(s, q, "."))

\* File:\s*(.*?)\s*[=-]{3,}(?:\r?\n|$) at offset b.
MarkerWord(s, start, b) ==
    IF Sub(s, b, b + 5) = "File:"
    THEN MarkerPath(s, start, b + 5 + RunLen(s, b + 5, "\\s"))
    ELSE NoMatch

\* \s*File:... after an opening fence from offset p to offset a.
MarkerOpen(s, start, p, a) ==
    IF a - p >= 3 THEN MarkerWord(s, start, a + RunLen(s, a, "\\s")) ELSE NoMatch

\* [=-]{3,}\s*File:\s*(.*?)\s*[=-]{3,}(?:\r?\n|$) at offset p, for a match that
\* began at offset start.
MarkerBodyAt(s, start, p) == MarkerOpen(s, start, p, p + RunLen(s, p, "[=-]"))

FirstOk(a, b, c) == IF a.ok THEN a ELSE IF b.ok THEN b ELSE c

\* The regular expression tried at offset start: the alternatives of
\* (?:^|\r?\n) in order.
MarkerAt(s, start) ==
    FirstOk(IF start = 0 THEN MarkerBodyAt(s, start, start) ELSE NoMatch,
            IF At(s, start) = "\r" /\ At(s, start + 1) = "\n"
            THEN MarkerBodyAt(s, start, start + 2) ELSE NoMatch,
            IF At(s, start) = "\n" THEN MarkerBodyAt(s, start, start + 1) ELSE NoMatch)

\* Where the next exec of the regular expression matches: the least offset from
\* lastIndex on at which it matches.
NextMarkerIndex(s, lastIndex) ==
    CHOOSE st \in lastIndex..Len(s) :
        MarkerAt(s, st).ok /\ \A j \in lastIndex..(st - 1) : ~MarkerAt(s, j).ok

RECURSIVE ScanMarkers(_, _)
\* matches.push({...}) for the match m, and the rest of the loop.
ScanStep(s, m) ==
    <<[path |-> m.path, startIndex |-> m.startIndex, endIndex |-> m.endIndex]>>
    \o ScanMarkers(s, m.endIndex)

\* The `while ((match = markerRegex.exec(content)) !== null)` loop from lastIndex.
ScanMarkers(s, lastIndex) ==
    IF \E st \in lastIndex..Len(s) : MarkerAt(s, st).ok
    THEN ScanStep(s, MarkerAt(s, NextMarkerIndex(s, lastIndex)))
    ELSE <<>>

(***************************************************************************)
(* inflateToZip: path sanitisation and content cleanup.                    *)
(***************************************************************************)

RECURSIVE StripLeadingSlashes(_)
\* .replace(/^(\.\/|\/)+/, '')
StripLeadingSlashes(s) ==
    IF StartsWith(s, "./") THEN StripLeadingSlashes(From(s, 2))
    ELSE IF StartsWith(s, "/") THEN StripLeadingSlashes(From(s, 1))
    ELSE s

\* The length of group 1 of /(^|[\/\\])\.\.([\/\\]|$)/ tried at offset i, or -1.
DotDotOpen(s, i) ==
    IF i = 0 /\ Sub(s, 0, 2) = ".." THEN 0 ELSE IF IsSlash(At(s, i)) THEN 1 ELSE -1

\* The length of group 2 at offset e, or -1.
DotDotClose(s, e) == IF IsSlash(At(s, e)) THEN 1 ELSE IF e = Len(s) THEN 0 ELSE -1

\* The length of the match at offset i whose group 1 has length g1, or -1.
DotDotLen(s, i, g1) ==
    IF g1 >= 0 /\ Sub(s, i + g1, i + g1 + 2) = ".." /\ DotDotClose(s, i + g1 + 2) >= 0
    THEN g1 + 2 + DotDotClose(s, i + g1 + 2)
    ELSE -1

RECURSIVE StripDotDot(_, _)
\* The replacement '$1$2' of a match of length n at offset i, and the rest.
StripDotDotStep(s, i, g1, n) ==
    IF n >= 0
    THEN Sub(s, i, i + g1) \o Sub(s, i + g1 + 2, i + n) \o StripDotDot(s, i + n)
    ELSE At(s, i) \o StripDotDot(s, i + 1)

\* .replace(/(^|[\/\\])\.\.([\/\\]|$)/g, '$1$2') from offset i on: the matches are
\* found left to right, each search starting where the previous match ended.
StripDotDot(s, i) ==
    IF i >= Len(s) THEN ""
    ELSE StripDotDotStep(s, i, DotDotOpen(s, i), DotDotLen(s, i, DotDotOpen(s, i)))

\* cleanPath of inflateToZip.
SanitizePath(path) == StripDotDot(StripLeadingSlashes(NormSlash(path)), 0)

\* The offset of the last line break among the first w characters.
LastBreakBefore(s, w) ==
    CHOOSE j \in 0..(w - 1) :
        IsLineBreak(At(s, j)) /\ \A k \in (j + 1)..(w - 1) : ~IsLineBreak(At(s, k))

StripLeadingRun(s, w) ==
    IF \E j \in 0..(w - 1) : IsLineBreak(At(s, j))
    THEN From(s, 1 + LastBreakBefore(s, w))
    ELSE s

\* .replace(/^\s*[\r\n]/, ''): the greedy \s* backs off to the last line break
\* of the leading white space.
StripLeading(s) == StripLeadingRun(s, RunLen(s, 0, "\\s"))

\* Whether /[\r\n]\s*$/ matches at offset j.
TrailingAt(s, j) == IsLineBreak(At(s, j)) /\ \A k \in j..(Len(s) - 1) : IsSpace(At(s, k))

\* .replace(/[\r\n]\s*$/, ''): the leftmost line break followed by white space
\* only.
StripTrailing(s) ==
    IF \E j \in 0..(Len(s) - 1) : TrailingAt(s, j)
    THEN Sub(s, 0, CHOOSE j \in 0..(Len(s) - 1) :
                       TrailingAt(s, j) /\ \A k \in 0..(j - 1) : ~TrailingAt(s, k))
    ELSE s

\* rawContent after the two replaces.
CleanContent(rawContent) == StripTrailing(StripLeading(rawContent))

(***************************************************************************)
(* inflateToZip: the synchronous part, from the paste area to the calls of *)
(* zip.file.                                                               *)
(***************************************************************************)

\* extractedName, from the parts of the first match's path.
NameOfParts(parts) == IF Len(parts) > 1 THEN parts[1] ELSE "code_restored"

ExtractedName(ms) == NameOfParts(Split(NormSlash(ms[1].path), "/"))

\* rawContent of iteration i: content.substring(contentStart, contentEnd).
RawContent(content, ms, i) ==
    Sub(content, ms[i].endIndex,
        IF i + 1 <= Len(ms) THEN ms[i + 1].startIndex ELSE Len(content))

\* `if (!cleanPath || cleanPath.endsWith('/')) continue;`
IsSkipped(cleanPath) == cleanPath = "" \/ EndsWith(cleanPath, "/")

\* Iteration i of the loop once cleanPath is computed: the call of zip.file, if any.
ZipCall(content, ms, i, cleanPath) ==
    IF IsSkipped(cleanPath) THEN <<>>
    ELSE <<[path |-> cleanPath, content |-> CleanContent(RawContent(content, ms, i))]>>

RECURSIVE ZipCallsBreak(_, _, _)
\* ZipCalls with `break` in the place of `continue`.
ZipCallsBreak(content, ms, i) ==
    IF i > Len(ms) \/ IsSkipped(SanitizePath(ms[i].path)) THEN <<>>
    ELSE ZipCall(content, ms, i, SanitizePath(ms[i].path)) \o ZipCallsBreak(content, ms, i + 1)

RECURSIVE ZipCalls(_, _, _)
\* The calls zip.file(cleanPath, rawContent) of iterations i, i + 1, ... of the
\* `for (let i = 0; i < matches.length; i++)` loop (i counted from 1 here).
ZipCalls(content, ms, i) ==
    IF i > Len(ms) THEN <<>>
    ELSE ZipCall(content, ms, i, SanitizePath(ms[i].path)) \o ZipCalls(content, ms, i + 1)

\* inflateToZip's return at a guard that fails: "empty" is the blank-input toast,
\* "nomarkers" the alert.
Rejected(outcome) ==
    [outcome |-> outcome, zipCalls |-> <<>>, fileCount |-> 0,
     extractedName |-> "code_restored", matches |-> <<>>]

\* After the loop: "zip" when fileCount > 0, else "novalid" (the toast of the
\* else branch).
Extracted(ms, calls) ==
    [outcome |-> IF Len(calls) > 0 THEN "zip" ELSE "novalid", zipCalls |-> calls,
     fileCount |-> Len(calls), extractedName |-> ExtractedName(ms), matches |-> ms]

\* Scanned without the `if (matches.length === 0) {...; return;}` guard.
ScannedUnguarded(content, ms) ==
    IF ms = <<>> THEN Rejected("novalid") ELSE Extracted(ms, ZipCalls(content, ms, 1))

\* The `if (matches.length === 0)` guard and the rest of inflateToZip.
Scanned(content, ms) ==
    IF ms = <<>> THEN Rejected("nomarkers") ELSE Extracted(ms, ZipCalls(content, ms, 1))

\* What inflateToZip has done when it reaches `if (fileCount > 0)`, or returned
\* with.
InflateResult(content) ==
    IF Trim(content) = "" THEN Rejected("empty") ELSE Scanned(content, ScanMarkers(content, 0))

(***************************************************************************)
(* The encoder and the decoder as handlers.                                *)
(***************************************************************************)

flattenVars == <<globalFiles, finalOutput, flattenQueue>>
inflateVars == <<pasteArea, inflatePc, inflateContent, matches, zip, fileCount, extractedName, saved,
                 inflateToast>>
codecVars == <<flattenVars, inflateVars>>
uploadVars == <<gitIgnoreRules, currentProjectName, tasks, events, rulesFrom, filterLog, admitLog>>
filterVars == <<ignoreText, probePath, probeResult, filterPc>>
treeVars == <<treePaths, treeText, treeCalled>>
viewVars == <<fileTree>>
vars == <<codecVars, uploadVars, filterVars, treeVars, viewVars>>

\* How many doFlatten callbacks may be pending at once.
MaxPending == 1

\* doFlatten(), up to setTimeout: the callback captures activeFiles.
DoFlatten ==
    /\ Selected(globalFiles) # <<>>
    /\ Len(flattenQueue) < MaxPending
    /\ flattenQueue' = Append(flattenQueue, Selected(globalFiles))
    /\ UNCHANGED <<globalFiles, finalOutput, inflateVars>>
    /\ UNCHANGED <<uploadVars, filterVars, treeVars, viewVars>>

\* The callback doFlatten deferred by 50 ms: timers of equal delay fire in order.
FlattenTimeout ==
    /\ flattenQueue # <<>>
    /\ finalOutput' = Bundle(Head(flattenQueue))
    /\ flattenQueue' = Tail(flattenQueue)
    /\ UNCHANGED <<globalFiles, inflateVars>>
    /\ UNCHANGED <<uploadVars, filterVars, treeVars, viewVars>>

\* downloadFile() saves STATE.finalOutput as a text file and handleInflateUpload
\* reads such a file into the paste area.
LoadBundle ==
    /\ finalOutput # ""
    /\ inflatePc = "idle"
    /\ pasteArea # finalOutput
    /\ pasteArea' = finalOutput
    /\ UNCHANGED <<flattenVars, inflatePc, inflateContent, matches, zip, fileCount,
                   extractedName, saved, inflateToast>>
    /\ UNCHANGED <<uploadVars, filterVars, treeVars, viewVars>>

\* inflateToZip() up to `await zip.generateAsync`, or to its return.
InflateToZip ==
    /\ inflatePc = "idle"
    /\ \E r \in {InflateResult(pasteArea)} :
           /\ matches' = r.matches
           /\ zip' = r.zipCalls
           /\ fileCount' = r.fileCount
           /\ extractedName' = r.extractedName
           /\ inflateToast' = IF r.outcome = "zip" THEN "" ELSE r.outcome
           /\ inflatePc' = IF r.outcome = "zip" THEN "generating" ELSE "idle"
    /\ inflateContent' = pasteArea
    /\ saved' = FALSE
    /\ UNCHANGED <<flattenVars, pasteArea>>
    /\ UNCHANGED <<uploadVars, filterVars, treeVars, viewVars>>

\* zip.generateAsync resolved: saveAs and the success toast.
ZipGenerated ==
    /\ inflatePc = "generating"
    /\ saved' = TRUE
    /\ inflateToast' = "success"
    /\ inflatePc' = "idle"
    /\ UNCHANGED <<flattenVars, pasteArea, inflateContent, matches, zip, fileCount,
                   extractedName>>
    /\ UNCHANGED <<uploadVars, filterVars, treeVars, viewVars>>

\* zip.generateAsync rejected: the catch branch.
ZipFailed ==
    /\ inflatePc = "generating"
    /\ inflateToast' = "zipfail"
    /\ inflatePc' = "idle"
    /\ UNCHANGED <<flattenVars, pasteArea, inflateContent, matches, zip, fileCount,
                   extractedName, saved>>
    /\ UNCHANGED <<uploadVars, filterVars, treeVars, viewVars>>

\* No inflateToZip has run yet.
InflateIdle ==
    /\ inflatePc = "idle"
    /\ inflateContent = ""
    /\ matches = <<>>
    /\ zip = <<>>
    /\ fileCount = 0
    /\ extractedName = "code_restored"
    /\ saved = FALSE
    /\ inflateToast = ""

(***************************************************************************)
(* The upload handlers: the drop handler of packZone with scanFiles, the   *)
(* change handlers of fileInput and extraFileInput, processSingleFile.     *)
(* A handler is async: it runs from one await to the next without a break, *)
(* and other handlers run while it waits.  Each action below is one such   *)
(* run.  A file is [name, path, text, readable]: its name, its             *)
(* webkitRelativePath or fullPath, what readAsText gives, and whether      *)
(* readAsText succeeds.  Every file is within MAX_FILE_SIZE.               *)
(***************************************************************************)

\* How many upload events one session handles.
MaxEvents == 2

\* The result of processSingleFile(file, path) for a file within the size
\* limit, once readFileAsText has settled: an entry, parsed rules (the handler
\* gets null), null, or the rejection of the .gitignore read.
ProcessSingleFile(file, filePath) ==
    IF file.name = ".gitignore"
    THEN IF file.readable
         THEN [kind |-> "rules", rules |-> ParseGitIgnore(file.text), entry |-> <<>>]
         ELSE [kind |-> "throw", rules |-> <<>>, entry |-> <<>>]
    ELSE IF file.readable
         THEN [kind |-> "entry", rules |-> <<>>,
               entry |-> [path |-> filePath, content |-> file.text, selected |-> TRUE]]
         ELSE [kind |-> "null", rules |-> <<>>, entry |-> <<>>]

\* this.gitIgnoreRules after processSingleFile gave r.
RulesAfter(r) == IF r.kind = "rules" THEN r.rules ELSE gitIgnoreRules

\* The upload that gitIgnoreRules come from after processSingleFile gave r to task t.
FromAfter(t, r) == IF r.kind = "rules" THEN t.id ELSE rulesFrom

\* A handler invocation at its start.
NewTask(id, kind, files) ==
    [id |-> id, kind |-> kind, pc |-> "start", files |-> files, i |-> 1,
     results |-> <<>>, filtered |-> <<>>, checked |-> <<>>, addedCount |-> 0,
     existIndex |-> 0]

\* The invocation has returned (or rejected): its locals are gone.
Done(t) ==
    [t EXCEPT !.pc = "done", !.i = 1, !.results = <<>>, !.filtered = <<>>, !.checked = <<>>,
              !.addedCount = 0, !.existIndex = 0]

\* `if (res) processedList.push(res)` / `if (processed) results.push(processed)`.
Pushed(t, r) ==
    IF r.kind = "entry"
    THEN [t EXCEPT !.results = Append(@, r.entry), !.filtered = Append(@, t.checked)]
    ELSE t

\* The first file from index i on that shouldIgnore lets through under rules
\* (Len(files) + 1 if none).
NextKept(files, i, rules) ==
    IF \E k \in i..Len(files) : ~ShouldIgnore(files[k].path, rules)
    THEN CHOOSE k \in i..Len(files) :
             /\ ~ShouldIgnore(files[k].path, rules)
             /\ \A m \in i..(k - 1) : ShouldIgnore(files[m].path, rules)
    ELSE Len(files) + 1

\* The loop over the files has reached index j: wait for file j, or leave the loop
\* and wait for minWait.
LoopedTo(t, j, rules, awaitPc) ==
    IF j > Len(t.files)
    THEN [t EXCEPT !.pc = "minWait", !.i = j, !.checked = <<>>]
    ELSE [t EXCEPT !.pc = awaitPc, !.i = j, !.checked = rules]

\* The loop `for (const file of files) { if (shouldIgnore(path)) continue; await ... }`
\* run from index i up to its next await.
Looped(t, i, rules, awaitPc) == LoopedTo(t, NextKept(t.files, i, rules), rules, awaitPc)

\* History of the calls of shouldIgnore that Looped(t, i, rules, _) makes.
Logged(t, i, rules, from) ==
    IF i <= Len(t.files) /\ rules # <<>> THEN {[upload |-> t.id, rulesFrom |-> from]} ELSE {}

\* History of the entries that task t assigns to STATE.globalFiles.
Admitted(t) ==
    {[upload |-> t.id, path |-> t.results[k].path, rules |-> t.filtered[k]] :
        k \in DOMAIN t.results}

IsRootGitIgnore(f) == f.name = ".gitignore" /\ Len(Split(f.path, "/")) = 2

\* files.find(f => f.name === '.gitignore' && ...split('/').length === 2), as an
\* index (0: undefined).
GitIgnoreFile(files) ==
    IF \E k \in DOMAIN files : IsRootGitIgnore(files[k])
    THEN CHOOSE k \in DOMAIN files :
             IsRootGitIgnore(files[k]) /\ \A m \in 1..(k - 1) : ~IsRootGitIgnore(files[m])
    ELSE 0

\* STATE.globalFiles.findIndex(f => f.path === filePath), 1-based (0: not found).
FindIndex(files, filePath) ==
    IF \E k \in DOMAIN files : files[k].path = filePath
    THEN CHOOSE k \in DOMAIN files :
             files[k].path = filePath /\ \A m \in 1..(k - 1) : files[m].path # filePath
    ELSE 0

\* `if (existIndex > -1) STATE.globalFiles.splice(existIndex, 1)`.
Spliced(files, existIndex) ==
    IF existIndex = 0 THEN files
    ELSE SubSeq(files, 1, existIndex - 1) \o SubSeq(files, existIndex + 1, Len(files))

ExtraPath(file) == "Extra_Files/" \o file.name

\* The change handler of fileInput, up to its first await.
\* renderFileTree() rebuilds the tree from STATE.globalFiles: a leaf is stored under
\* its path, so of the entries with one path the last one owns the leaf, and the
\* leaf's click handler carries that entry's index.  (The paths of the inputs have
\* no file that is also a folder.)
RenderFileTree(files) ==
    {index \in DOMAIN files :
        \A later \in DOMAIN files : later > index => files[later].path # files[index].path}

\* resetResultsArea(): the bundle is dropped; a pending timer of doFlatten is not.
ResetResultsArea == finalOutput' = ""

\* toggleFileSelection(index, domElement), from a click on a leaf of the rendered
\* tree.  For an index the list no longer has, the first statement throws and
\* nothing changes.
ToggleFileSelection(index) ==
    /\ index \in fileTree
    /\ index \in DOMAIN globalFiles
    /\ globalFiles' = [globalFiles EXCEPT ![index].selected = ~globalFiles[index].selected]
    /\ ResetResultsArea
    /\ UNCHANGED <<flattenQueue, inflateVars, uploadVars, filterVars, treeVars, viewVars>>

\* toggleAllFiles(): select all if some entry is unselected, otherwise unselect all.
ToggleAllFiles ==
    /\ \E hasUnchecked \in {\E k \in DOMAIN globalFiles : ~globalFiles[k].selected} :
           globalFiles' = [k \in DOMAIN globalFiles |->
                              [globalFiles[k] EXCEPT !.selected = hasUnchecked]]
    /\ fileTree' = RenderFileTree(globalFiles)
    /\ ResetResultsArea
    /\ UNCHANGED <<flattenQueue, inflateVars, uploadVars, filterVars, treeVars>>

FileInputChange(files) ==
    /\ events < MaxEvents
    /\ files # <<>>
    /\ events' = events + 1
    /\ finalOutput' = ""
    /\ globalFiles' = <<>>
    /\ currentProjectName' = Split(files[1].path, "/")[1]
    /\ \E t \in {NewTask(events + 1, "input", files)} :
           IF GitIgnoreFile(files) > 0
           THEN /\ tasks' = tasks \cup {[t EXCEPT !.pc = "prescan", !.i = GitIgnoreFile(files)]}
                /\ filterLog' = filterLog
           ELSE /\ tasks' = tasks \cup {Looped(t, 1, gitIgnoreRules, "process")}
                /\ filterLog' = filterLog \cup Logged(t, 1, gitIgnoreRules, rulesFrom)
    /\ UNCHANGED <<gitIgnoreRules, rulesFrom, admitLog, flattenQueue, inflateVars, filterVars, treeVars, viewVars>>

\* fileInput: `await readFileAsText(gitIgnoreFile)` has settled.
FileInputPrescanned(t) ==
    /\ t.kind = "input" /\ t.pc = "prescan"
    /\ IF t.files[t.i].readable
       THEN \E rules \in {ParseGitIgnore(t.files[t.i].text)} :
                /\ gitIgnoreRules' = rules
                /\ rulesFrom' = t.id
                /\ tasks' = (tasks \ {t}) \cup {Looped(t, 1, rules, "process")}
                /\ filterLog' = filterLog \cup Logged(t, 1, rules, t.id)
       ELSE /\ tasks' = (tasks \ {t}) \cup {Done(t)}
            /\ UNCHANGED <<gitIgnoreRules, rulesFrom, filterLog>>
    /\ UNCHANGED <<globalFiles, finalOutput, currentProjectName, events, admitLog,
                   flattenQueue, inflateVars, filterVars, treeVars, viewVars>>

\* fileInput: `await processSingleFile(file, path)` has settled.
FileInputProcessed(t) ==
    /\ t.kind = "input" /\ t.pc = "process"
    /\ \E r \in {ProcessSingleFile(t.files[t.i], t.files[t.i].path)} :
           IF r.kind = "throw"
           THEN /\ tasks' = (tasks \ {t}) \cup {Done(t)}
                /\ UNCHANGED <<gitIgnoreRules, rulesFrom, filterLog>>
           ELSE /\ gitIgnoreRules' = RulesAfter(r)
                /\ rulesFrom' = FromAfter(t, r)
                /\ tasks' = (tasks \ {t})
                               \cup {Looped(Pushed(t, r), t.i + 1, RulesAfter(r), "process")}
                /\ filterLog' = filterLog
                                   \cup Logged(t, t.i + 1, RulesAfter(r), FromAfter(t, r))
    /\ UNCHANGED <<globalFiles, finalOutput, currentProjectName, events, admitLog,
                   flattenQueue, inflateVars, filterVars, treeVars, viewVars>>

\* fileInput: `await minWait` has settled; `STATE.globalFiles = processedList`.
FileInputLoaded(t) ==
    /\ t.kind = "input" /\ t.pc = "minWait"
    /\ globalFiles' = t.results
    /\ fileTree' = IF t.results = <<>> THEN fileTree ELSE RenderFileTree(t.results)
    /\ admitLog' = admitLog \cup Admitted(t)
    /\ tasks' = (tasks \ {t}) \cup {Done(t)}
    /\ UNCHANGED <<finalOutput, currentProjectName, events, gitIgnoreRules, rulesFrom,
                   filterLog, flattenQueue, inflateVars, filterVars, treeVars>>

\* The drop handler of packZone, up to its first await: one directory was
\* dropped, files are its entries; scanFiles meets the directory first.
PackZoneDrop(files) ==
    /\ events < MaxEvents
    /\ files # <<>>
    /\ events' = events + 1
    /\ finalOutput' = ""
    /\ globalFiles' = <<>>
    /\ currentProjectName' = Split(files[1].path, "/")[1]
    /\ \E t \in {NewTask(events + 1, "drop", files)} :
           /\ tasks' = tasks \cup
                  {IF ShouldIgnore(Split(files[1].path, "/")[1], gitIgnoreRules)
                   THEN [t EXCEPT !.pc = "minWait"]
                   ELSE [t EXCEPT !.pc = "readEntries"]}
           /\ filterLog' = filterLog \cup Logged(t, 1, gitIgnoreRules, rulesFrom)
    /\ UNCHANGED <<gitIgnoreRules, rulesFrom, admitLog, flattenQueue, inflateVars, filterVars, treeVars, viewVars>>

\* scanFiles: `await new Promise(... dirReader.readEntries ...)` has settled, and
\* scanFiles(childEntries, fullPath) runs to its first await.
DropEntriesRead(t) ==
    /\ t.kind = "drop" /\ t.pc = "readEntries"
    /\ tasks' = (tasks \ {t}) \cup {Looped(t, 1, gitIgnoreRules, "file")}
    /\ filterLog' = filterLog \cup Logged(t, 1, gitIgnoreRules, rulesFrom)
    /\ UNCHANGED <<globalFiles, finalOutput, currentProjectName, events, gitIgnoreRules,
                   rulesFrom, admitLog, flattenQueue, inflateVars, filterVars, treeVars, viewVars>>

\* scanFiles: `await new Promise(... entry.file ...)` has settled, and
\* processSingleFile runs to its `await readFileAsText(file)`.
DropFileGot(t) ==
    /\ t.kind = "drop" /\ t.pc = "file"
    /\ tasks' = (tasks \ {t}) \cup {[t EXCEPT !.pc = "read"]}
    /\ UNCHANGED <<globalFiles, finalOutput, currentProjectName, events, gitIgnoreRules,
                   rulesFrom, filterLog, admitLog, flattenQueue, inflateVars, filterVars, treeVars, viewVars>>

\* scanFiles: `await processSingleFile(file, fullPath)` has settled (its rejection
\* is caught), and the loop goes on to its next await.
DropFileRead(t) ==
    /\ t.kind = "drop" /\ t.pc = "read"
    /\ \E r \in {ProcessSingleFile(t.files[t.i], t.files[t.i].path)} :
           /\ gitIgnoreRules' = RulesAfter(r)
           /\ rulesFrom' = FromAfter(t, r)
           /\ tasks' = (tasks \ {t}) \cup {Looped(Pushed(t, r), t.i + 1, RulesAfter(r), "file")}
           /\ filterLog' = filterLog \cup Logged(t, t.i + 1, RulesAfter(r), FromAfter(t, r))
    /\ UNCHANGED <<globalFiles, finalOutput, currentProjectName, events, admitLog,
                   flattenQueue, inflateVars, filterVars, treeVars, viewVars>>

\* The drop handler: `await minWait` has settled; `STATE.globalFiles = scannedFiles`.
DropLoaded(t) ==
    /\ t.kind = "drop" /\ t.pc = "minWait"
    /\ globalFiles' = t.results
    /\ fileTree' = IF t.results = <<>> THEN fileTree ELSE RenderFileTree(t.results)
    /\ admitLog' = admitLog \cup Admitted(t)
    /\ tasks' = (tasks \ {t}) \cup {Done(t)}
    /\ UNCHANGED <<finalOutput, currentProjectName, events, gitIgnoreRules, rulesFrom,
                   filterLog, flattenQueue, inflateVars, filterVars, treeVars>>

\* The change handler of extraFileInput, up to its first await: findIndex and
\* splice for the first file, then `await processSingleFile(file, path)`.
ExtraFileInputChange(files) ==
    /\ events < MaxEvents
    /\ files # <<>>
    /\ events' = events + 1
    /\ globalFiles' = Spliced(globalFiles, FindIndex(globalFiles, ExtraPath(files[1])))
    /\ tasks' = tasks \cup
           {[NewTask(events + 1, "extra", files) EXCEPT
                !.pc = "process",
                !.existIndex = FindIndex(globalFiles, ExtraPath(files[1]))]}
    /\ UNCHANGED <<finalOutput, currentProjectName, gitIgnoreRules, rulesFrom, filterLog,
                   admitLog, flattenQueue, inflateVars, filterVars, treeVars, viewVars>>

\* `if (res) { STATE.globalFiles.push(res); addedCount++; }`
ExtraPushed(t, r) ==
    IF r.kind = "entry"
    THEN Append(globalFiles, r.entry) ELSE globalFiles

ExtraAdded(t, r) == IF r.kind = "entry" THEN t.addedCount + 1 ELSE t.addedCount

\* extraFileInput: `await processSingleFile(file, path)` has settled (its
\* rejection is caught); then the next file up to its await, or the end of the
\* handler.
ExtraProcessed(t) ==
    /\ t.kind = "extra" /\ t.pc = "process"
    /\ \E r \in {ProcessSingleFile(t.files[t.i], ExtraPath(t.files[t.i]))} :
           /\ gitIgnoreRules' = RulesAfter(r)
           /\ rulesFrom' = FromAfter(t, r)
           /\ IF t.i < Len(t.files)
              THEN /\ globalFiles' =
                          Spliced(ExtraPushed(t, r),
                                  FindIndex(ExtraPushed(t, r), ExtraPath(t.files[t.i + 1])))
                   /\ tasks' = (tasks \ {t})
                                  \cup {[t EXCEPT
                                            !.i = t.i + 1,
                                            !.addedCount = ExtraAdded(t, r),
                                            !.existIndex =
                                                FindIndex(ExtraPushed(t, r),
                                                          ExtraPath(t.files[t.i + 1]))]}
                   /\ UNCHANGED <<finalOutput, currentProjectName, fileTree>>
              ELSE /\ globalFiles' = ExtraPushed(t, r)
                   /\ tasks' = (tasks \ {t}) \cup {Done(t)}
                   /\ IF ExtraAdded(t, r) > 0
                      THEN /\ fileTree' = RenderFileTree(ExtraPushed(t, r))
                           /\ currentProjectName' =
                                  IF currentProjectName = "code_press_context"
                                  THEN "Mixed_Files" ELSE currentProjectName
                           /\ finalOutput' = ""
                      ELSE UNCHANGED <<finalOutput, currentProjectName, fileTree>>
    /\ UNCHANGED <<events, filterLog, admitLog, flattenQueue, inflateVars, filterVars, treeVars>>

\* Nothing was uploaded yet.
UploadIdle ==
    /\ gitIgnoreRules = <<>>
    /\ currentProjectName = "code_press_context"
    /\ tasks = {}
    /\ events = 0
    /\ rulesFrom = 0
    /\ filterLog = {}
    /\ admitLog = {}
    /\ fileTree = {}

(***************************************************************************)
(* Direct calls of the path filter.                                        *)
(***************************************************************************)

\* PROCESSOR.parseGitIgnore(ignoreText)
CallParseGitIgnore ==
    /\ filterPc = "parse"
    /\ gitIgnoreRules' = ParseGitIgnore(ignoreText)
    /\ filterPc' = "probe"
    /\ UNCHANGED <<codecVars, currentProjectName, tasks, events, rulesFrom, filterLog,
                   admitLog, ignoreText, probePath, probeResult, treeVars, viewVars>>

\* PROCESSOR.shouldIgnore(probePath)
CallShouldIgnore ==
    /\ filterPc = "probe"
    /\ probeResult' = IF ShouldIgnore(probePath, gitIgnoreRules) THEN "ignored" ELSE "kept"
    /\ filterPc' = "done"
    /\ UNCHANGED <<codecVars, uploadVars, ignoreText, probePath, treeVars, viewVars>>

\* No direct call is made.
FilterIdle ==
    /\ ignoreText = ""
    /\ probePath = ""
    /\ probeResult = "unset"
    /\ filterPc = "done"

(***************************************************************************)
(* A direct call of the tree renderer.  Segments named like a property of  *)
(* Object.prototype (constructor, __proto__, ...) are not among the        *)
(* inputs.                                                                 *)
(***************************************************************************)

\* PROCESSOR.generateTree(treePaths)
CallGenerateTree ==
    /\ ~treeCalled
    /\ treeText' = GenerateTree(treePaths)
    /\ treeCalled' = TRUE
    /\ UNCHANGED <<codecVars, uploadVars, filterVars, treePaths, viewVars>>

\* No direct call is made.
TreeIdle ==
    /\ treePaths = <<>>
    /\ treeText = ""
    /\ treeCalled = TRUE

(***************************************************************************)
(* The texts and projects the codec is checked on.                         *)
(***************************************************************************)

\* All strings of at most n characters, each drawn from the set chars.
RECURSIVE StringsUpTo(_, _)
StringsUpTo(chars, n) ==
    IF n = 0 THEN {""}
    ELSE LET shorter == StringsUpTo(chars, n - 1)
         IN  shorter \cup {c \o t : c \in chars, t \in {u \in shorter : Len(u) = n - 1}}

\* All sequences of 1..n elements of S.
RECURSIVE SeqsUpTo(_, _)
SeqsUpTo(S, n) ==
    IF n = 0 THEN {<<>>}
    ELSE LET shorter == SeqsUpTo(S, n - 1)
         IN  shorter \cup {Append(q, x) : q \in {r \in shorter : Len(r) = n - 1}, x \in S}

MaxSegs == 3
MaxSpanLen == 4
MaxFrames == 3
MaxFiles == 2
MaxContentLen == 2

\* A marker line around a path, in the encoder's style or in a looser one.
MarkerLine(style, path) ==
    IF style = "exact" THEN "=== File: " \o path \o " ===" ELSE "----File:" \o path \o "-----"

\* Marker paths: up to MaxSegs segments, joined by either kind of slash.
MarkerPaths ==
    LET segs == SeqsUpTo({"..", "a", ""}, MaxSegs) \ {<<>>}
    IN  {Join(q, "/") : q \in segs} \cup {Join(q, "\\") : q \in segs}
        \cup {"../../etc/passwd", "./a", "/a/b"}

\* One frame per marker path.
PathTexts == {MarkerLine("exact", p) \o "\nx\n" : p \in MarkerPaths}

\* One frame per content span.
SpanTexts == {MarkerLine("exact", "a") \o "\n" \o c : c \in StringsUpTo({"\n", " ", "x"}, MaxSpanLen)}

\* The frames texts are built from: a marker style, a marker path (two of them
\* skipped once sanitised) and a content span.
FrameKinds ==
    { <<"exact", "p/a", "x\n">>, <<"loose", "b", "\ny\n\n">>, <<"exact", "d/", "z\n">>,
      <<"loose", "..", "w\n">>, <<"exact", "b", "">> }

\* Several frames in a row.
FrameTexts ==
    {Concat([i \in DOMAIN q |-> MarkerLine(q[i][1], q[i][2]) \o "\n" \o q[i][3]]) :
        q \in SeqsUpTo(FrameKinds, MaxFrames) \ {<<>>}}

\* Texts without a marker: blank ones, and near misses of the marker syntax.
MarkerlessTexts ==
    {"", " ", "\n", " \n\t", "just some text", "== File: a ==\n", "=== file: a ===\n",
     "x=== File: a ===\n", "=== File: a ===x", "=== File: a\nb ===\n", "=== File a ===\n"}

PasteTexts == PathTexts \cup SpanTexts \cup FrameTexts \cup MarkerlessTexts

\* Projects: up to MaxFiles selected files with distinct paths.
ProjectPaths == {"a", "s/b"}
ProjectContents ==
    StringsUpTo({"x", "\n"}, MaxContentLen) \cup {"== File: z ==", "x\n=== File: z ===\ny"}
Projects ==
    {q \in SeqsUpTo([path : ProjectPaths, content : ProjectContents, selected : {TRUE}],
                    MaxFiles) :
        q # <<>> /\ \A i, j \in DOMAIN q : q[i].path = q[j].path => i = j}

(***************************************************************************)
(* The uploads the handlers are checked on.                                *)
(***************************************************************************)

MaxListing == 2
MaxExtra == 2

FileIn(dir, name, text, readable) ==
    [name |-> name, path |-> dir \o name, text |-> text, readable |-> readable]

\* The files of the folder p, and a .gitignore of its subfolder s.
RootFiles ==
    { FileIn("p/", ".gitignore", "*.log\n", TRUE),
      FileIn("p/", "a.log", "x", TRUE),
      FileIn("p/", "b.txt", "y\n", TRUE) }

NestedFiles == { FileIn("p/s/", ".gitignore", "b.txt\n", TRUE) }

\* The files offered to extraFileInput: three of one name (one of them
\* unreadable) and a .gitignore.
ExtraFiles ==
    { FileIn("", "x.txt", "x", TRUE),
      FileIn("", "x.txt", "z", TRUE),
      FileIn("", "x.txt", "", FALSE),
      FileIn("", ".gitignore", "*.txt\n", TRUE) }

\* Directory listings of at most n files of the pool, in every order.
Listings(pool, n) ==
    {q \in SeqsUpTo(pool, n) :
        q # <<>> /\ \A i, j \in DOMAIN q : q[i].path = q[j].path => i = j}

InputListings == Listings(RootFiles \cup NestedFiles, MaxListing)
DropListings == Listings(RootFiles, MaxListing)
ExtraSelections == Listings(ExtraFiles, MaxExtra)

\* Texts of ignore files: at most MaxRules lines, and the text of the documented example.
MaxRules == 2

IgnoreLines == {"# comment", "node_modules/", "*.log", "/pkg", " lib/app.txt \r"}

GitIgnoreTexts ==
    {Join(q, "\n") : q \in SeqsUpTo(IgnoreLines, MaxRules)}
        \cup {"# comment\n\nnode_modules/\n*.log\n", "app.txt", "\n\n#\n/\nx.log/\n"}

\* Paths for the dynamic rules.
RulePaths ==
    {"pkg/node_modules/x.js", "pkg/app.log", "pkg/app.txt", "app.txt", "a/pkg/app.txt",
     "lib/app.txt/x", "a/lib/app.txt/x", "a\\lib\\app.txt", "x.log", "pkg", "a/b.logs"}

\* The stems put before a denylist entry: at most MaxStemLen characters.
MaxStemLen == 1

\* Paths for the static suffix denylist: each entry as written, in lower case
\* and in upper case, after a stem or under a folder.
SuffixPaths ==
    {st \o e : st \in StringsUpTo({"f"}, MaxStemLen) \cup {"src/"},
               e \in IGNORE_EXTS \cup {ToLowerCase(x) : x \in IGNORE_EXTS}
                                 \cup {ToUpperCase(x) : x \in IGNORE_EXTS}}

ProbePaths == RulePaths \cup SuffixPaths

InitInflate ==
    /\ globalFiles = <<>>
    /\ pasteArea \in PasteTexts
    /\ finalOutput = ""
    /\ flattenQueue = <<>>
    /\ InflateIdle
    /\ UploadIdle
    /\ TreeIdle
    /\ FilterIdle

NextInflate ==
    \/ InflateToZip
    \/ ZipGenerated
    \/ ZipFailed

\* The decoder on pasted text.
SpecInflate == InitInflate /\ [][NextInflate]_vars

InitRoundTrip ==
    /\ globalFiles \in Projects
    /\ pasteArea = ""
    /\ finalOutput = ""
    /\ flattenQueue = <<>>
    /\ InflateIdle
    /\ UploadIdle
    /\ TreeIdle
    /\ FilterIdle

NextRoundTrip ==
    \/ DoFlatten
    \/ FlattenTimeout
    \/ LoadBundle
    \/ InflateToZip
    \/ ZipGenerated
    \/ ZipFailed

\* The encoder's bundle fed to the decoder.
SpecRoundTrip == InitRoundTrip /\ [][NextRoundTrip]_vars

Init ==
    /\ globalFiles = <<>>
    /\ pasteArea = ""
    /\ finalOutput = ""
    /\ flattenQueue = <<>>
    /\ InflateIdle
    /\ UploadIdle
    /\ TreeIdle
    /\ FilterIdle

Next ==
    \/ \E files \in InputListings : FileInputChange(files)
    \/ \E t \in tasks : FileInputPrescanned(t)
    \/ \E t \in tasks : FileInputProcessed(t)
    \/ \E t \in tasks : FileInputLoaded(t)
    \/ \E files \in DropListings : PackZoneDrop(files)
    \/ \E t \in tasks : DropEntriesRead(t)
    \/ \E t \in tasks : DropFileGot(t)
    \/ \E t \in tasks : DropFileRead(t)
    \/ \E t \in tasks : DropLoaded(t)
    \/ \E files \in ExtraSelections : ExtraFileInputChange(files)
    \/ \E t \in tasks : ExtraProcessed(t)
    \/ \E index \in fileTree : ToggleFileSelection(index)
    \/ ToggleAllFiles
    \/ DoFlatten
    \/ FlattenTimeout

\* One session of the page: the upload handlers interleaved at their awaits, the
\* clicks on the file tree, the flatten button and its timer.
Spec == Init /\ [][Next]_vars

InitFilter ==
    /\ globalFiles = <<>>
    /\ pasteArea = ""
    /\ finalOutput = ""
    /\ flattenQueue = <<>>
    /\ InflateIdle
    /\ UploadIdle
    /\ TreeIdle
    /\ ignoreText \in GitIgnoreTexts
    /\ probePath \in ProbePaths
    /\ probeResult = "unset"
    /\ filterPc = "parse"

NextFilter ==
    \/ CallParseGitIgnore
    \/ CallShouldIgnore

\* parseGitIgnore and shouldIgnore called on a text and a path.
SpecFilter == InitFilter /\ [][NextFilter]_vars

\* How many paths generateTree is handed.
MaxPaths == 3

\* Paths of files and folders, some of them named by a number.
TreePaths == {"src/x.js", "src/y.js", "b", "a", "b/x", "a/b/x", "1/y", "10", "2", "a\\c"}

InitTree ==
    /\ globalFiles = <<>>
    /\ pasteArea = ""
    /\ finalOutput = ""
    /\ flattenQueue = <<>>
    /\ InflateIdle
    /\ UploadIdle
    /\ FilterIdle
    /\ treePaths \in SeqsUpTo(TreePaths, MaxPaths)
    /\ treeText = ""
    /\ treeCalled = FALSE

NextTree == CallGenerateTree

\* generateTree called on a list of paths.
SpecTree == InitTree /\ [][NextTree]_vars

(***************************************************************************)
(* Properties of the decoder.                                              *)
(***************************************************************************)

\* An inflateToZip has run past its guards and its loop on inflateContent.
InflateRan == inflatePc = "generating" \/ inflateToast # ""

\* The (path, content) pairs of a file list.
PairsOf(files) == [i \in DOMAIN files |-> [path |-> files[i].path, content |-> files[i].content]]

\* C1: round trip.  Decoding the bundle that doFlatten built from the selected
\* files gives zip.file exactly their (path, content) pairs, in their order.
C1_RoundTrip ==
    (InflateRan /\ finalOutput # "" /\ inflateContent = finalOutput)
        => zip = PairsOf(Selected(globalFiles))

\* C2: traversal safety.  No path handed to zip.file has a segment `..`, and the
\* marker path ../../etc/passwd is written as etc/passwd.
C2_NoDotDotSegment ==
    InflateRan =>
        /\ \A i \in DOMAIN zip : ".." \notin Range(Split(zip[i].path, "/"))
        /\ (matches # <<>> /\ matches[1].path = "../../etc/passwd")
               => (zip # <<>> /\ zip[1].path = "etc/passwd")

\* The number of line breaks of s: \n, \r\n or a lone \r.
LineBreaks(s) ==
    Cardinality({i \in 0..(Len(s) - 1) :
                    At(s, i) = "\n" \/ (At(s, i) = "\r" /\ At(s, i + 1) # "\n")})

\* c is raw without a head and a tail of at most one line break each.
StrippedByOne(raw, c) ==
    \E a \in 0..Len(raw) : \E b \in a..Len(raw) :
        /\ Sub(raw, a, b) = c
        /\ LineBreaks(Sub(raw, 0, a)) <= 1
        /\ LineBreaks(From(raw, b)) <= 1

\* C3: content cleanup removes at most one leading and at most one trailing
\* line break of a content span (stated for runs that skip no marker, where
\* the i-th call of zip.file belongs to the i-th marker).
C3_AtMostOneBreak ==
    (InflateRan /\ Len(zip) = Len(matches)) =>
        \A i \in DOMAIN zip :
            StrippedByOne(RawContent(inflateContent, matches, i), zip[i].content)

\* Nothing was added to the archive, nothing saved, no success reported.
NoPartialOutput ==
    /\ inflatePc = "idle"
    /\ zip = <<>>
    /\ fileCount = 0
    /\ ~saved
    /\ inflateToast \notin {"success", "zipfail"}

\* C7 as stated: a text without a marker always ends in the NoMarkersFound
\* alert, with no partial output.
C7_AlwaysNoMarkersFound ==
    (InflateRan /\ ScanMarkers(inflateContent, 0) = <<>>)
        => (inflateToast = "nomarkers" /\ NoPartialOutput)

\* C7 as amended: a text without a marker leaves no partial output and ends in
\* the NoMarkersFound alert, unless it is blank, when it ends in the
\* empty-content toast.
C7_NoPartialOutput ==
    (InflateRan /\ ScanMarkers(inflateContent, 0) = <<>>)
        => /\ inflateToast = (IF Trim(inflateContent) = "" THEN "empty" ELSE "nomarkers")
           /\ NoPartialOutput

C7_Witness ==
    /\ inflateToast = "nomarkers"
    /\ inflateContent = "=== file: a ===\n"

\* The markers whose sanitised path is kept.
KeptMarkers ==
    {i \in DOMAIN matches :
        SanitizePath(matches[i].path) # "" /\ ~EndsWith(SanitizePath(matches[i].path), "/")}

\* The k-th kept marker.
KeptMarker(k) == CHOOSE i \in KeptMarkers : Cardinality({j \in KeptMarkers : j <= i}) = k

\* The text between the end of marker i and the start of marker i + 1 (the end
\* of the text for the last marker).
SpanAfter(i) ==
    Sub(inflateContent, matches[i].endIndex,
        IF i < Len(matches) THEN matches[i + 1].startIndex ELSE Len(inflateContent))

\* C8: skip and continue.  The calls of zip.file are the kept markers in marker
\* order, each with the cleaned span from the end of its own marker to the
\* start of the next marker, skipped or not; markers do not overlap.
C8_SkipAndContinue ==
    (InflateRan /\ matches # <<>>) =>
        /\ \A i \in 1..(Len(matches) - 1) : matches[i].endIndex <= matches[i + 1].startIndex
        /\ Len(zip) = Cardinality(KeptMarkers)
        /\ fileCount = Len(zip)
        /\ \A k \in DOMAIN zip :
               /\ zip[k].path = SanitizePath(matches[KeptMarker(k)].path)
               /\ zip[k].content = CleanContent(SpanAfter(KeptMarker(k)))

C8_Witness ==
    /\ inflateToast = "success"
    /\ Len(matches) = 3
    /\ KeptMarkers = {1, 3}
    /\ zip[2].content = "x"

(***************************************************************************)
(* Properties of the upload handlers.                                      *)
(***************************************************************************)

\* The rules of the .gitignore at the root of the upload of task t.
RootRulesOf(t) ==
    IF GitIgnoreFile(t.files) = 0 THEN <<>>
    ELSE ParseGitIgnore(t.files[GitIgnoreFile(t.files)].text)

\* C4: rules before filtering.  Every file a folder load puts into
\* STATE.globalFiles passed shouldIgnore under a rule set that held the rules of
\* the .gitignore at the root of that load.
C4_RootRulesFirst ==
    \A a \in admitLog : \A t \in tasks :
        (t.id = a.upload) => (Range(RootRulesOf(t)) \subseteq Range(a.rules))

\* C5: path uniqueness.  Once every handler has returned, no two entries of
\* STATE.globalFiles have the same path.
C5_UniquePaths ==
    (\A t \in tasks : t.pc = "done") =>
        \A i, j \in DOMAIN globalFiles : (globalFiles[i].path = globalFiles[j].path) => (i = j)

\* C6: rules are scoped to an upload.  shouldIgnore never filters an upload with
\* rules parsed from the .gitignore of an earlier upload.
C6_RulesScopedToUpload == \A l \in filterLog : l.rulesFrom >= l.upload

(***************************************************************************)
(* Properties of the path filter.                                          *)
(***************************************************************************)

\* The last segment of the probed path.
ProbeName == Last(Split(NormSlash(probePath), "/"))

\* C9: the static suffix denylist is case-insensitive for every entry: a path
\* whose file name ends, letter case aside, with an entry of IGNORE_EXTS is
\* ignored.
C9_SuffixDenylist ==
    (filterPc = "done"
        /\ \E ext \in IGNORE_EXTS : EndsWith(ToLowerCase(ProbeName), ToLowerCase(ext)))
        => (probeResult = "ignored")

\* The trimmed lines of ignoreText.
TrimmedLines == [k \in DOMAIN Split(ignoreText, "\n") |-> Trim(Split(ignoreText, "\n")[k])]

\* Those that are neither empty nor a comment.
RuleLines == SelectSeq(TrimmedLines, LAMBDA l : l # "" /\ At(l, 0) # "#")

\* The rule of such a line: the pattern without its trailing slash, and the flag.
RuleOfLine(l) ==
    IF At(l, Len(l) - 1) = "/" THEN [rule |-> Sub(l, 0, Len(l) - 1), isDir |-> TRUE]
    ELSE [rule |-> l, isDir |-> FALSE]

\* The path p, of segments segs and file name name, is excluded by a pattern.
PatternExcludes(pattern, stripped, p, segs, name) ==
    \/ pattern \in Range(segs)
    \/ /\ \E k \in 0..(Len(pattern) - 1) : At(pattern, k) = "/"
       /\ \/ p = stripped
          \/ StartsWith(p, stripped \o "/")
          \/ Includes(p, "/" \o stripped \o "/")
    \/ name = pattern
    \/ At(pattern, 0) = "*" /\ EndsWith(name, From(pattern, 1))

\* The pattern without one leading slash.
Stripped(pattern) == IF At(pattern, 0) = "/" THEN From(pattern, 1) ELSE pattern

\* The probed path passes the static checks of shouldIgnore.
PassesStatic ==
    /\ Range(Split(NormSlash(probePath), "/")) \cap IGNORE_DIRS = {}
    /\ ~IgnoredByExt(ProbeName)

\* C10: dynamic ignore rules.  parseGitIgnore gives one rule per trimmed line that
\* is neither empty nor a comment, in file order, the trailing slash removed and
\* recorded; shouldIgnore then excludes a path that passes the static checks
\* exactly when a rule's pattern is a segment of the path, or has a slash and,
\* without one leading slash, is the path, a prefix of it before a slash or
\* inside it between slashes, or is the file name, or starts with * and the file
\* name ends with the rest.  The documented example holds.
C10_DynamicRules ==
    /\ (filterPc # "parse") =>
           gitIgnoreRules = [k \in DOMAIN RuleLines |-> RuleOfLine(RuleLines[k])]
    /\ (filterPc = "done" /\ PassesStatic) =>
           (probeResult = "ignored" <=>
               \E k \in DOMAIN gitIgnoreRules :
                   PatternExcludes(gitIgnoreRules[k].rule, Stripped(gitIgnoreRules[k].rule),
                                   NormSlash(probePath), Split(NormSlash(probePath), "/"),
                                   ProbeName))
    /\ (filterPc # "parse" /\ ignoreText = "# comment\n\nnode_modules/\n*.log\n") =>
           /\ gitIgnoreRules = << [rule |-> "node_modules", isDir |-> TRUE],
                                  [rule |-> "*.log", isDir |-> FALSE] >>
           /\ (filterPc = "done" /\ probePath \in {"pkg/node_modules/x.js", "pkg/app.log"})
                  => (probeResult = "ignored")
           /\ (filterPc = "done" /\ probePath = "pkg/app.txt") => (probeResult = "kept")

C10_Witness ==
    /\ filterPc = "done"
    /\ ignoreText = "/pkg\n lib/app.txt \r"
    /\ probePath = "pkg/app.txt"
    /\ probeResult = "ignored"

(***************************************************************************)
(* Properties of the decoder's archive name and file count.                *)
(***************************************************************************)

\* C11: suggested root name.  When the first retained entry lies in a folder,
\* extractedName is the first segment of its sanitised path.
C11_RootName ==
    (InflateRan /\ zip # <<>> /\ Len(Split(zip[1].path, "/")) > 1)
        => (extractedName = Split(zip[1].path, "/")[1])

\* The names of the files of the archive after the calls zip.file(path, content):
\* JSZip keys its files by path, a later call replaces an earlier one.
ArchiveFiles(calls) == {calls[i].path : i \in DOMAIN calls}

\* C15: restored-file count.  fileCount is the number of distinct files of the
\* archive.
C15_RestoredCount == InflateRan => (fileCount = Cardinality(ArchiveFiles(zip)))

(***************************************************************************)
(* Properties of the tree renderer.                                        *)
(***************************************************************************)

RECURSIVE RenderNode(_, _, _)
\* The line of a child and the lines of its descendants.
RenderChild(segsList, child, prefix, key, last) ==
    prefix \o (IF last THEN "^~~ " ELSE "+~~ ") \o key \o "\n"
    \o RenderNode(segsList, child, prefix \o (IF last THEN "    " ELSE "|   "))

\* The children of a node, in the order in which their names were first seen.
RenderChildren(segsList, node, prefix, keys) ==
    Concat([i \in 1..Len(keys) |->
               RenderChild(segsList, Append(node, keys[i]), prefix, keys[i], i = Len(keys))])

RenderNode(segsList, node, prefix) ==
    RenderChildren(segsList, node, prefix, InsertedKeys(segsList, node))

\* C12: tree rendering.  generateTree prints the children of every node in
\* first-seen order, the last with the closing branch, the prefix carried down;
\* a Root/ line comes first exactly for more than one path; no path gives "";
\* src/x.js, src/y.js render as documented.
C12_TreeRendering ==
    treeCalled =>
        /\ treeText = (IF treePaths = <<>> THEN ""
                       ELSE (IF Len(treePaths) > 1 THEN "Root/\n" ELSE "")
                            \o RenderNode(SegmentsOf(treePaths), <<>>, ""))
        /\ (treePaths = <<"src/x.js", "src/y.js">>)
               => (treeText = "Root/\n^~~ src\n    +~~ x.js\n    ^~~ y.js\n")

(***************************************************************************)
(* Properties of the extra-file handler and of the bundle.                 *)
(***************************************************************************)

\* C14: a failed extra file leaves the list unchanged.  When the handler of
\* extraFileInput found an entry with the path of its file (existIndex > -1) and
\* processSingleFile gives no entry for the file, STATE.globalFiles still has
\* an entry with that path once the handler has dealt with the file.
C14_FailureKeepsEntry ==
    [][\A t \in tasks :
          (/\ ExtraProcessed(t)
           /\ t.existIndex > 0
           /\ ProcessSingleFile(t.files[t.i], ExtraPath(t.files[t.i])).kind # "entry")
              => \E k \in DOMAIN globalFiles' : globalFiles'[k].path = ExtraPath(t.files[t.i])]_vars

\* C13: the bundle is never stale.  STATE.finalOutput is empty or it is the
\* encoding of the entries of STATE.globalFiles that are selected now, whatever
\* the order of doFlatten's timer, the toggles, the folder loads and the
\* extra-file additions.
C13_BundleFresh ==
    finalOutput = "" \/ finalOutput = Bundle(Selected(globalFiles))

====
